---- MODULE Spec2Model ----
(***************************************************************************)
(* nRF24L01 driver (pdlib_nrf24l01): the SPI command / register access     *)
(* layer and the device control functions built on it, in the two builds   *)
(* of the repository:                                                      *)
(*   "example"  src/example/stellaris_lm4f120h5qr/pdlib_nrf24l01_test/     *)
(*   "arm"      src/arm/stellaris_lm4f120h5qr/                             *)
(* The driver talks to a chip over SPI; the chip side (status byte on the  *)
(* first byte of a transaction, register file) and the SPI transport are   *)
(* collaborators outside the two source files and are modelled from the    *)
(* specification and the data sheet behaviour it refers to.                *)
(***************************************************************************)
EXTENDS Integers, Sequences, FiniteSets, TLC

VARIABLES
    variant,          \* which build runs: "example" or "arm"
    g_ucPdlibStatus,  \* 0 before NRF24L01_Init has run, 1 after
    g_ucStatus,       \* the stored status byte
    csn,              \* level of the CSN line (1 high, 0 low)
    ce,               \* level of the CE line (1 high, 0 low)
    chip,             \* the chip: its registers
    log,              \* pin edges and byte transfers of the current/last call
    call,             \* the current/last call: name, arguments, result, state before
    pc                \* "idle": no call in progress; "wait": inside the poll
                      \* loop of the blocking wait; "ret": a call has returned
                      \* and its record (call, log) is still to be read

vars == <<variant, g_ucPdlibStatus, g_ucStatus, csn, ce, chip, log, call, pc>>

----------------------------------------------------------------------------
\* Bounds of the model

\* longest payload / read length handed to the multi-byte functions
MaxLen == 2
\* most status polls without a completion bit that one blocking wait records
MaxPolls == 2

----------------------------------------------------------------------------
\* Constants of nRF24L01.h (command words, register addresses, bit masks)

RF24_R_REGISTER   == 0
RF24_W_REGISTER   == 32
RF24_W_TX_PAYLOAD == 160
RF24_FLUSH_TX     == 225
RF24_FLUSH_RX     == 226
RF24_NOP          == 255

RF24_CONFIG      == 0
RF24_EN_AA       == 1
RF24_EN_RXADDR   == 2
RF24_SETUP_AW    == 3
RF24_SETUP_RETR  == 4
RF24_RF_CH       == 5
RF24_RF_SETUP    == 6
RF24_STATUS      == 7
RF24_CD          == 9
RF24_RX_ADDR_P0  == 10
RF24_RX_ADDR_P1  == 11
RF24_RX_ADDR_P2  == 12
RF24_RX_ADDR_P3  == 13
RF24_RX_ADDR_P4  == 14
RF24_RX_ADDR_P5  == 15
RF24_TX_ADDR     == 16
RF24_RX_PW_P0    == 17
RF24_RX_PW_P1    == 18
RF24_RX_PW_P2    == 19
RF24_RX_PW_P3    == 20
RF24_RX_PW_P4    == 21
RF24_RX_PW_P5    == 22
RF24_FIFO_STATUS == 23
RF24_DYNPD       == 28
RF24_FEATURE     == 29

RF24_PRIM_RX  == 1
RF24_PWR_UP   == 2
RF24_MAX_RT   == 16
RF24_TX_DS    == 32
RF24_RX_DR    == 64
RF24_RX_EMPTY == 1
RF24_TX_EMPTY == 16
RF24_TX_FULL  == 32

TYPE_RX == 1
TYPE_TX == 2

----------------------------------------------------------------------------
\* C arithmetic on bytes

RECURSIVE BitAnd(_, _)
BitAnd(a, b) ==
    IF a = 0 \/ b = 0 THEN 0
    ELSE (a % 2) * (b % 2) + 2 * BitAnd(a \div 2, b \div 2)

RECURSIVE BitOr(_, _)
BitOr(a, b) ==
    IF a = 0 THEN b
    ELSE IF b = 0 THEN a
    ELSE (IF a % 2 = 1 \/ b % 2 = 1 THEN 1 ELSE 0) + 2 * BitOr(a \div 2, b \div 2)

\* conversion to unsigned char
U8(x) == x % 256

\* F applied to the value of x (x is evaluated once, before F)
Eval(x, F(_)) == CHOOSE r \in {F(v) : v \in {x}} : TRUE
Eval2(x, y, F(_, _)) == CHOOSE r \in {F(v, w) : v \in {x}, w \in {y}} : TRUE

\* v & ~mask on an unsigned char
BitClear(v, mask) == BitAnd(v, 255 - mask)

HasBit(v, mask) == BitAnd(v, mask) # 0

----------------------------------------------------------------------------
\* Buffers handed to the driver: a null pointer, or the bytes pointed to

NullBuf == [null |-> TRUE, bytes |-> <<>>]
Buf(s)  == [null |-> FALSE, bytes |-> s]

\* The first n bytes of a sequence (memcpy of n bytes out of it)
Take(s, n) == SubSeq(s, 1, n)

----------------------------------------------------------------------------
\* The log of one call: pin edges and byte transfers, in order

EvCSN(level)  == [k |-> "csn", tx |-> level, rx |-> 0]
EvCE(level)   == [k |-> "ce", tx |-> level, rx |-> 0]
EvXfer(tx, rx) == [k |-> "xfer", tx |-> tx, rx |-> rx]

----------------------------------------------------------------------------
\* The chip.  Its registers CONFIG, RF_SETUP, STATUS and FIFO_STATUS are
\* kept; every other register reads as the byte the transport is scripted
\* to return (m.script).

NoCmd == -1

\* value the chip puts on MISO while a data byte of a read command is clocked
ChipRead(c, reg, script) ==
    CASE reg = RF24_CONFIG      -> c.config
      [] reg = RF24_RF_SETUP    -> c.rf_setup
      [] reg = RF24_STATUS      -> c.status
      [] reg = RF24_FIFO_STATUS -> c.fifo
      [] OTHER                  -> script

\* effect of the first data byte of W_REGISTER: STATUS flags are cleared by
\* writing 1 to them, FIFO_STATUS is read-only, CONFIG and RF_SETUP store.
ChipWrite(c, reg, v) ==
    CASE reg = RF24_CONFIG   -> [c EXCEPT !.config = BitAnd(v, 127)]
      [] reg = RF24_RF_SETUP -> [c EXCEPT !.rf_setup = v]
      [] reg = RF24_STATUS   ->
            [c EXCEPT !.status = BitClear(c.status, BitAnd(v, 112))]
      [] OTHER               -> c

\* effect of a command word itself
ChipCommand(c, cmd) ==
    CASE cmd = RF24_FLUSH_TX ->
            [c EXCEPT !.fifo = BitOr(BitClear(c.fifo, RF24_TX_FULL), RF24_TX_EMPTY)]
      [] cmd = RF24_FLUSH_RX -> [c EXCEPT !.fifo = BitOr(c.fifo, RF24_RX_EMPTY)]
      [] OTHER -> c

\* One full-duplex byte exchange on the bus.  m is the machine: the driver's
\* globals, the pins, the chip and the log.  The response is left in m.miso.
\* While CSN is high the chip is not selected: it takes no byte in and does
\* not drive the line, the byte clocked in is whatever the transport returns
\* (m.script).
SPIExchange(mm, bb) ==
    Eval2(mm, bb, LAMBDA m, b :
        LET first == m.cmd = NoCmd
            resp  == IF m.csn # 0 THEN m.script
                     ELSE IF first THEN m.chip.status
                     ELSE IF m.cmd < RF24_W_REGISTER
                          THEN ChipRead(m.chip, m.cmd, m.script)
                     ELSE IF m.cmd = RF24_NOP THEN m.script
                     ELSE 0
            chip2 == IF m.csn # 0 THEN m.chip
                     ELSE IF first THEN ChipCommand(m.chip, b)
                     ELSE IF m.cmd >= RF24_W_REGISTER /\ m.cmd < 2 * RF24_W_REGISTER
                             /\ m.idx = 1
                          THEN ChipWrite(m.chip, m.cmd - RF24_W_REGISTER, b)
                     ELSE m.chip
        IN [m EXCEPT !.miso = resp,
                     !.chip = chip2,
                     !.cmd  = IF m.csn # 0 THEN m.cmd ELSE IF first THEN b ELSE m.cmd,
                     !.idx  = IF m.csn # 0 THEN m.idx ELSE m.idx + 1,
                     !.log  = Append(m.log, EvXfer(b, resp))])

----------------------------------------------------------------------------
\* SPI transport (pdlib_spi)

\* pdlibSPI_TransferByte: send one byte, return the byte clocked in
pdlibSPI_TransferByte(m, b) == SPIExchange(m, b)

\* pdlibSPI_SendData: send the bytes in order; the bytes clocked in
\* meanwhile are what pdlibSPI_ReceiveDataBlocking hands out next
RECURSIVE SendBytes(_, _)
SendBytes(mm, ss) ==
    Eval2(mm, ss, LAMBDA m, s :
        IF s = <<>> THEN m
        ELSE Eval(SPIExchange(m, Head(s)), LAMBDA m1 :
                  SendBytes([m1 EXCEPT !.rxq = Append(m1.rxq, m1.miso)], Tail(s))))

pdlibSPI_SendData(mm, s) ==
    Eval(mm, LAMBDA m : SendBytes([m EXCEPT !.rxq = <<>>], s))

\* pdlibSPI_ReceiveDataBlocking: the oldest byte not yet handed out
pdlibSPI_ReceiveDataBlocking(mm) ==
    Eval(mm, LAMBDA m : [m EXCEPT !.miso = Head(m.rxq), !.rxq = Tail(m.rxq)])

----------------------------------------------------------------------------
\* Hardware pin control

_NRF24L01_CELow(mm) ==
    Eval(mm, LAMBDA m : [m EXCEPT !.ce = 0, !.log = Append(m.log, EvCE(0))])

_NRF24L01_CEHigh(mm) ==
    Eval(mm, LAMBDA m : [m EXCEPT !.ce = 1, !.log = Append(m.log, EvCE(1))])

_NRF24L01_CSNLow(mm) ==
    Eval(mm, LAMBDA m : [m EXCEPT !.csn = 0, !.cmd = NoCmd, !.idx = 0,
                                  !.log = Append(m.log, EvCSN(0))])

_NRF24L01_CSNHigh(mm) ==
    Eval(mm, LAMBDA m : [m EXCEPT !.csn = 1, !.log = Append(m.log, EvCSN(1))])

----------------------------------------------------------------------------
\* Register read/write functions.  Each takes the machine m and returns it
\* after the call; a returned value is left in m.ret.

\* g_ucStatus = <the byte just received>
StoreStatus(mm) == Eval(mm, LAMBDA m : [m EXCEPT !.g_ucStatus = m.miso])

\* <return value> = <the byte just received>
StoreRet(mm) == Eval(mm, LAMBDA m : [m EXCEPT !.ret = m.miso])

\* A faulty register write, to test C1 against: the register address goes
\* out without the W_REGISTER command bits
Faulty_RegisterWrite_8_NoWriteMask(m, ucRegister, ucValue) ==
    LET m1 == _NRF24L01_CSNLow(m)
        m2 == StoreStatus(pdlibSPI_TransferByte(m1, ucRegister))
        m3 == pdlibSPI_TransferByte(m2, ucValue)
    IN _NRF24L01_CSNHigh(m3)

\* example build, NRF24L01_RegisterWrite_8
NRF24L01_RegisterWrite_8(m, ucRegister, ucValue) ==
    LET d0 == U8(BitOr(RF24_W_REGISTER, ucRegister))
        m1 == _NRF24L01_CSNLow(m)
        m2 == StoreStatus(pdlibSPI_TransferByte(m1, d0))
        m3 == pdlibSPI_TransferByte(m2, ucValue)
    IN _NRF24L01_CSNHigh(m3)

\* arm build, _NRF24L01_RegisterWrite_8
_NRF24L01_RegisterWrite_8(m, ucRegister, ucValue) ==
    LET d0 == U8(BitOr(RF24_W_REGISTER, ucRegister))
        m1 == _NRF24L01_CSNLow(m)
        m2 == pdlibSPI_SendData(m1, <<d0, ucValue>>)
        m3 == StoreStatus(pdlibSPI_ReceiveDataBlocking(m2))
    IN _NRF24L01_CSNHigh(m3)

RegisterWrite_8(m, ucRegister, ucValue) ==
    IF variant = "arm" THEN _NRF24L01_RegisterWrite_8(m, ucRegister, ucValue)
    ELSE NRF24L01_RegisterWrite_8(m, ucRegister, ucValue)

\* example build, NRF24L01_RegisterWrite_Multi; allocOk: malloc returned a buffer
NRF24L01_RegisterWrite_Multi(m, ucRegister, pucData, uiLength, allocOk) ==
    IF pucData.null \/ ~allocOk THEN m
    ELSE LET pucBuffer == Take(pucData.bytes, uiLength)
             m1 == _NRF24L01_CSNLow(m)
             m2 == StoreStatus(pdlibSPI_TransferByte(m1,
                                 U8(BitOr(RF24_W_REGISTER, ucRegister))))
             m3 == pdlibSPI_SendData(m2, pucBuffer)
         IN _NRF24L01_CSNHigh(m3)

\* arm build, _NRF24L01_RegisterWrite_Multi
_NRF24L01_RegisterWrite_Multi(m, ucRegister, pucData, uiLength, allocOk) ==
    IF pucData.null \/ ~allocOk THEN m
    ELSE LET pucBuffer == <<U8(BitOr(RF24_W_REGISTER, ucRegister))>>
                             \o Take(pucData.bytes, uiLength)
             m1 == _NRF24L01_CSNLow(m)
             m2 == pdlibSPI_SendData(m1, pucBuffer)
             m3 == StoreStatus(pdlibSPI_ReceiveDataBlocking(m2))
         IN _NRF24L01_CSNHigh(m3)

RegisterWrite_Multi(m, ucRegister, pucData, uiLength, allocOk) ==
    IF variant = "arm"
    THEN _NRF24L01_RegisterWrite_Multi(m, ucRegister, pucData, uiLength, allocOk)
    ELSE NRF24L01_RegisterWrite_Multi(m, ucRegister, pucData, uiLength, allocOk)

\* The frame _NRF24L01_SendCommand builds: the command, then uiLength bytes
\* copied from pucData or, when pucData is null, left as malloc returned
\* them (garbage)
CommandFrame(garbage, ucCommand, pucData, uiLength) ==
    <<ucCommand>> \o (IF pucData.null THEN Take(garbage, uiLength)
                      ELSE Take(pucData.bytes, uiLength))

\* example build, _NRF24L01_SendCommand
_NRF24L01_SendCommand(mm, ucCommand, pucData, uiLength, allocOk) ==
    Eval(mm, LAMBDA m :
        IF ~allocOk THEN m
        ELSE LET m1 == _NRF24L01_CSNLow(m)
                 m2 == pdlibSPI_SendData(m1,
                          CommandFrame(m.garbage, ucCommand, pucData, uiLength))
             IN _NRF24L01_CSNHigh(m2))

\* A faulty _NRF24L01_SendCommand, to test C15 against: CSN is driven low
\* before the allocation is checked
Faulty_SendCommand_CSNBeforeAlloc(mm, ucCommand, pucData, uiLength, allocOk) ==
    Eval(_NRF24L01_CSNLow(mm), LAMBDA m :
        IF ~allocOk THEN _NRF24L01_CSNHigh(m)
        ELSE LET m2 == pdlibSPI_SendData(m,
                          CommandFrame(m.garbage, ucCommand, pucData, uiLength))
                 m3 == StoreStatus(pdlibSPI_ReceiveDataBlocking(m2))
             IN _NRF24L01_CSNHigh(m3))

\* arm build, _NRF24L01_SendCommand
_NRF24L01_SendCommand_arm(mm, ucCommand, pucData, uiLength, allocOk) ==
    Eval(mm, LAMBDA m :
        IF ~allocOk THEN m
        ELSE LET m1 == _NRF24L01_CSNLow(m)
                 m2 == pdlibSPI_SendData(m1,
                          CommandFrame(m.garbage, ucCommand, pucData, uiLength))
                 m3 == StoreStatus(pdlibSPI_ReceiveDataBlocking(m2))
             IN _NRF24L01_CSNHigh(m3))

SendCommand(m, ucCommand, pucData, uiLength, allocOk) ==
    IF variant = "arm"
    THEN _NRF24L01_SendCommand_arm(m, ucCommand, pucData, uiLength, allocOk)
    ELSE _NRF24L01_SendCommand(m, ucCommand, pucData, uiLength, allocOk)

\* A faulty register read, to test C2 against: the byte returned is the one
\* clocked in with the command byte (the status), not with the NOP
Faulty_RegisterRead_8_ReturnsStatus(m, ucRegister) ==
    LET m1 == _NRF24L01_CSNLow(m)
        m2 == StoreRet(StoreStatus(pdlibSPI_TransferByte(m1,
                            U8(BitOr(RF24_R_REGISTER, ucRegister)))))
        m3 == pdlibSPI_TransferByte(m2, RF24_NOP)
    IN _NRF24L01_CSNHigh(m3)

\* example build, NRF24L01_RegisterRead_8
NRF24L01_RegisterRead_8(m, ucRegister) ==
    LET m1 == _NRF24L01_CSNLow(m)
        m2 == StoreStatus(pdlibSPI_TransferByte(m1,
                            U8(BitOr(RF24_R_REGISTER, ucRegister))))
        m3 == StoreRet(pdlibSPI_TransferByte(m2, RF24_NOP))
    IN _NRF24L01_CSNHigh(m3)

\* arm build, NRF24L01_RegisterRead_8
NRF24L01_RegisterRead_8_arm(m, ucRegister) ==
    LET m1 == _NRF24L01_CSNLow(m)
        m2 == pdlibSPI_SendData(m1, <<U8(BitOr(RF24_R_REGISTER, ucRegister))>>)
        m3 == StoreStatus(pdlibSPI_ReceiveDataBlocking(m2))
        m4 == pdlibSPI_SendData(m3, <<RF24_NOP>>)
        m5 == StoreRet(pdlibSPI_ReceiveDataBlocking(m4))
    IN _NRF24L01_CSNHigh(m5)

RegisterRead_8(m, ucRegister) ==
    IF variant = "arm" THEN NRF24L01_RegisterRead_8_arm(m, ucRegister)
    ELSE NRF24L01_RegisterRead_8(m, ucRegister)

\* the for loop of NRF24L01_RegisterRead_Multi: n more NOP transfers, each
\* byte clocked in stored in the caller's buffer (m.out)
RECURSIVE ReadLoop(_, _)
ReadLoop(mm, n) ==
    IF n = 0 THEN mm
    ELSE Eval(pdlibSPI_TransferByte(mm, RF24_NOP), LAMBDA m1 :
              ReadLoop([m1 EXCEPT !.out = Append(m1.out, m1.miso)], n - 1))

\* example build only, NRF24L01_RegisterRead_Multi
NRF24L01_RegisterRead_Multi(m, ucRegister, uiLength) ==
    LET m1 == _NRF24L01_CSNLow(m)
        m2 == StoreStatus(pdlibSPI_TransferByte(m1,
                            U8(BitOr(RF24_R_REGISTER, ucRegister))))
        m3 == ReadLoop(m2, uiLength)
    IN Eval(_NRF24L01_CSNHigh(m3), LAMBDA m4 : [m4 EXCEPT !.ret = m4.g_ucStatus])

----------------------------------------------------------------------------
\* Device control functions

NRF24L01_GetStatus(m) ==
    Eval(RegisterRead_8(m, RF24_NOP), LAMBDA m1 : [m1 EXCEPT !.ret = m1.g_ucStatus])

\* example build: 1 for 1 Mbps, 2 for 2 Mbps; the argument is decremented
\* as an unsigned char before it is shifted in
NRF24L01_SetAirDataRate(m, ucDataRate) ==
    Eval(RegisterRead_8(m, RF24_RF_SETUP), LAMBDA m1 :
         RegisterWrite_8(m1, RF24_RF_SETUP,
                         U8(BitOr(m1.ret, U8(ucDataRate - 1) * 8))))

\* arm build: 0 for 1 Mbps, 1 for 2 Mbps
NRF24L01_SetAirDataRate_arm(m, ucDataRate) ==
    Eval(RegisterRead_8(m, RF24_RF_SETUP), LAMBDA m1 :
         RegisterWrite_8(m1, RF24_RF_SETUP, U8(BitOr(m1.ret, ucDataRate * 8))))

NRF24L01_SetRFChannel(m, ucRFChannel) ==
    RegisterWrite_8(m, RF24_RF_CH, ucRFChannel)

\* example build: the gain in dBm, clamped to -18..0; (iPAGain && 0x03) is
\* C's logical and, 1 when iPAGain is nonzero
NRF24L01_SetPAGain(m, iPAGain) ==
    LET g  == IF iPAGain < -18 THEN -18 ELSE IF iPAGain > 0 THEN 0 ELSE iPAGain
        lv == 3 - ((-1 * g) \div 6)
        b  == IF lv # 0 THEN 1 ELSE 0
    IN Eval(RegisterRead_8(m, RF24_RF_SETUP), LAMBDA m1 :
            RegisterWrite_8(m1, RF24_RF_SETUP, U8(BitOr(m1.ret, b * 2))))

\* arm build: the two-bit field value itself
NRF24L01_SetPAGain_arm(m, ucPAGain) ==
    Eval(RegisterRead_8(m, RF24_RF_SETUP), LAMBDA m1 :
         RegisterWrite_8(m1, RF24_RF_SETUP, U8(BitOr(m1.ret, ucPAGain * 2))))

NRF24L01_SetLNAGain(m, ucLNAGain) ==
    Eval(RegisterRead_8(m, RF24_RF_SETUP), LAMBDA m1 :
         RegisterWrite_8(m1, RF24_RF_SETUP, U8(BitOr(m1.ret, ucLNAGain))))

\* A faulty NRF24L01_PowerDown, to test C11 against: CE is driven low before
\* CONFIG is written
Faulty_PowerDown_CEFirst(m) ==
    Eval(RegisterRead_8(m, RF24_CONFIG), LAMBDA m1 :
         RegisterWrite_8(_NRF24L01_CELow(m1), RF24_CONFIG,
                         BitClear(m1.ret, RF24_PWR_UP)))

NRF24L01_PowerDown(m) ==
    Eval(RegisterRead_8(m, RF24_CONFIG), LAMBDA m1 :
         _NRF24L01_CELow(
             RegisterWrite_8(m1, RF24_CONFIG, BitClear(m1.ret, RF24_PWR_UP))))

\* A faulty NRF24L01_PowerUp, to test C20 against: CONFIG is overwritten with
\* the PWR_UP bit alone ("=" for "|=")
Faulty_PowerUp_Overwrites(m) ==
    Eval(RegisterRead_8(m, RF24_CONFIG), LAMBDA m1 :
         RegisterWrite_8(m1, RF24_CONFIG, RF24_PWR_UP))

NRF24L01_PowerUp(m) ==
    Eval(RegisterRead_8(m, RF24_CONFIG), LAMBDA m1 :
         RegisterWrite_8(m1, RF24_CONFIG, BitOr(m1.ret, RF24_PWR_UP)))

NRF24L01_FlushTX(m, allocOk) == SendCommand(m, RF24_FLUSH_TX, NullBuf, 0, allocOk)

NRF24L01_FlushRX(m, allocOk) == SendCommand(m, RF24_FLUSH_RX, NullBuf, 0, allocOk)

NRF24L01_EnableRxMode(m) ==
    Eval(RegisterRead_8(m, RF24_CONFIG), LAMBDA m1 :
         _NRF24L01_CEHigh(
             RegisterWrite_8(m1, RF24_CONFIG, BitOr(m1.ret, RF24_PRIM_RX))))

\* arm build
NRF24L01_EnableTxMode_arm(m) ==
    Eval(RegisterRead_8(m, RF24_CONFIG), LAMBDA m1 :
         _NRF24L01_CEHigh(
             RegisterWrite_8(m1, RF24_CONFIG, BitClear(m1.ret, RF24_PRIM_RX))))

\* example build: writes the status read, its TX_DS and MAX_RT bits cleared,
\* to STATUS first
NRF24L01_EnableTxMode(m) ==
    Eval(NRF24L01_GetStatus(m), LAMBDA m1 :
         NRF24L01_EnableTxMode_arm(
             RegisterWrite_8(m1, RF24_STATUS,
                             BitClear(m1.ret, BitOr(RF24_TX_DS, RF24_MAX_RT)))))

NRF24L01_IsDataReadyRx(m) ==
    Eval(RegisterRead_8(m, RF24_FIFO_STATUS), LAMBDA m1 :
         [m1 EXCEPT !.ret = IF HasBit(m1.ret, RF24_RX_EMPTY) THEN 0 ELSE 1])

\* example build only
NRF24L01_IsTxFifoFull(m) ==
    Eval(RegisterRead_8(m, RF24_FIFO_STATUS), LAMBDA m1 :
         [m1 EXCEPT !.ret = IF HasBit(m1.ret, RF24_TX_FULL) THEN 0 ELSE 1])

\* A faulty NRF24L01_GetRxDataAmount, to test C9 against: the value read is
\* returned without the 0x3F mask
Faulty_GetRxDataAmount_NoMask(m, ucDataPipe) ==
    IF ucDataPipe < 6
    THEN RegisterRead_8(m, U8(RF24_RX_PW_P0 + ucDataPipe))
    ELSE [m EXCEPT !.ret = 0]

NRF24L01_GetRxDataAmount(m, ucDataPipe) ==
    IF ucDataPipe < 6
    THEN Eval(RegisterRead_8(m, U8(RF24_RX_PW_P0 + ucDataPipe)), LAMBDA m1 :
              [m1 EXCEPT !.ret = BitAnd(m1.ret, 63)])
    ELSE [m EXCEPT !.ret = 0]

NRF24L01_SetTXAddress(m, pucAddress, allocOk) ==
    RegisterWrite_Multi(m, RF24_TX_ADDR, pucAddress, 5, allocOk)

\* the value NRF24L01_WaitForTxComplete returns for a stored status:
\* ((g_ucStatus & (RF24_MAX_RT | RF24_TX_DS)) << 4), an int
WaitResult(status) == BitAnd(status, BitOr(RF24_MAX_RT, RF24_TX_DS)) * 16

\* A faulty loop condition, to test C18 against: only TX_DS ends the loop
Faulty_WaitLoopCond_OnlyTxDs(status) == ~HasBit(status, RF24_TX_DS)

\* the condition of the while loop of NRF24L01_WaitForTxComplete
WaitLoopCond(status) == ~HasBit(status, BitOr(RF24_MAX_RT, RF24_TX_DS))

\* A faulty NRF24L01_WaitForTxComplete, to test C5 against: the wait mode is
\* ignored, the function always enters the poll loop
Faulty_WaitForTxComplete_IgnoresMode(m, ucWaitMode) ==
    Eval(NRF24L01_GetStatus(m), LAMBDA m1 :
         IF WaitLoopCond(m1.g_ucStatus)
         THEN [m1 EXCEPT !.ret = 0, !.looping = TRUE]
         ELSE [m1 EXCEPT !.ret = WaitResult(m1.g_ucStatus), !.looping = FALSE])

\* NRF24L01_WaitForTxComplete from its entry to its return (m.looping
\* FALSE, result in m.ret) or to the body of its while loop (m.looping TRUE)
NRF24L01_WaitForTxComplete(m, ucWaitMode) ==
    Eval(NRF24L01_GetStatus(m), LAMBDA m1 :
         IF ucWaitMode = 0
         THEN [m1 EXCEPT !.ret = WaitResult(m1.g_ucStatus), !.looping = FALSE]
         ELSE IF WaitLoopCond(m1.g_ucStatus)
              THEN [m1 EXCEPT !.ret = 0, !.looping = TRUE]
         ELSE [m1 EXCEPT !.ret = WaitResult(m1.g_ucStatus), !.looping = FALSE])

\* A faulty loop pass, to test C4 against: a do-while that reads the status
\* once more after the read that showed a completion bit
Faulty_WaitLoopPass_PollsOnceMore(m) ==
    Eval(NRF24L01_GetStatus(m), LAMBDA m1 :
         IF WaitLoopCond(m1.g_ucStatus)
         THEN [m1 EXCEPT !.ret = 0, !.looping = TRUE]
         ELSE Eval(NRF24L01_GetStatus(m1), LAMBDA m2 :
                   [m2 EXCEPT !.ret = WaitResult(m2.g_ucStatus), !.looping = FALSE]))

\* one pass of the while loop of NRF24L01_WaitForTxComplete: the status
\* read of its body, then the loop condition again
WaitLoopPass(m) ==
    Eval(NRF24L01_GetStatus(m), LAMBDA m1 :
         IF WaitLoopCond(m1.g_ucStatus)
         THEN [m1 EXCEPT !.ret = 0, !.looping = TRUE]
         ELSE [m1 EXCEPT !.ret = WaitResult(m1.g_ucStatus), !.looping = FALSE])

\* A faulty NRF24L01_SetRxAddress, to test C10 against: pipe 6 is taken for
\* one of the single-byte pipes
Faulty_SetRxAddress_AcceptsPipe6(m, ucDataPipe, pucAddress, allocOk) ==
    IF pucAddress.null THEN m
    ELSE IF ucDataPipe \in {0, 1}
         THEN RegisterWrite_Multi(m, U8(RF24_RX_ADDR_P0 + ucDataPipe), pucAddress, 5,
                                  allocOk)
    ELSE IF ucDataPipe \in {2, 3, 4, 5, 6}
         THEN RegisterWrite_8(m, U8(RF24_RX_ADDR_P0 + ucDataPipe), pucAddress.bytes[1])
    ELSE m

NRF24L01_SetRxAddress(m, ucDataPipe, pucAddress, allocOk) ==
    IF pucAddress.null THEN m
    ELSE IF ucDataPipe \in {0, 1}
         THEN RegisterWrite_Multi(m, U8(RF24_RX_ADDR_P0 + ucDataPipe), pucAddress, 5,
                                  allocOk)
    ELSE IF ucDataPipe \in {2, 3, 4, 5}
         THEN RegisterWrite_8(m, U8(RF24_RX_ADDR_P0 + ucDataPipe), pucAddress.bytes[1])
    ELSE m

\* example build: -1 when NRF24L01_IsTxFifoFull returns nonzero
NRF24L01_SetTxPayload(m, pucData, uiLength, allocOk) ==
    Eval(NRF24L01_IsTxFifoFull(m), LAMBDA m1 :
         IF m1.ret # 0 THEN [m1 EXCEPT !.ret = -1]
         ELSE Eval(SendCommand(m1, RF24_W_TX_PAYLOAD, pucData, uiLength, allocOk),
                   LAMBDA m2 : [m2 EXCEPT !.ret = 0]))

\* arm build: writes unconditionally, returns nothing
NRF24L01_SetTxPayload_arm(m, pucData, uiLength, allocOk) ==
    SendCommand(m, RF24_W_TX_PAYLOAD, pucData, uiLength, allocOk)

\* A faulty NRF24L01_ExecuteCommand, to test C17 against: the check of a
\* zero length is left out
Faulty_ExecuteCommand_NoLengthCheck(mm, ucType, ucCommand, pucData, uiLength, allocOk) ==
    Eval(mm, LAMBDA m :
        IF uiLength > 0 /\ pucData.null THEN [m EXCEPT !.ret = -1]
        ELSE IF ucType = TYPE_TX /\ allocOk
             THEN Eval(StoreStatus(pdlibSPI_ReceiveDataBlocking(
                           pdlibSPI_SendData(m, <<ucCommand>> \o Take(pucData.bytes, uiLength)))),
                       LAMBDA m1 : [m1 EXCEPT !.ret = uiLength + 1,
                                              !.out = <<m1.g_ucStatus>>])
        ELSE [m EXCEPT !.ret = -1])

\* NRF24L01_ExecuteCommand (the same in both builds, with PDLIB_SPI defined
\* as every other function of the file needs it).  The value returned on
\* success is what pdlibSPI_SendData returns, taken to be the number of
\* bytes sent, as the function's header says; *pucStatus is left in m.out.
\* The function never drives CSN.
NRF24L01_ExecuteCommand(mm, ucType, ucCommand, pucData, uiLength, allocOk) ==
    Eval(mm, LAMBDA m :
        IF uiLength > 0 /\ pucData.null THEN [m EXCEPT !.ret = -1]
        ELSE IF uiLength = 0 /\ ucType = TYPE_TX /\ ucCommand # RF24_NOP
             THEN [m EXCEPT !.ret = -1]
        ELSE IF ucType = TYPE_TX /\ allocOk
             THEN Eval(StoreStatus(pdlibSPI_ReceiveDataBlocking(
                           pdlibSPI_SendData(m, <<ucCommand>> \o Take(pucData.bytes, uiLength)))),
                       LAMBDA m1 : [m1 EXCEPT !.ret = uiLength + 1,
                                              !.out = <<m1.g_ucStatus>>])
        ELSE [m EXCEPT !.ret = -1])

----------------------------------------------------------------------------
\* NRF24L01_RegisterInit (example build): the register transactions in the
\* order of the source; a step is a single write, a single read or a
\* multi-byte write (with the index of its allocation)

ucRxAddr1 == <<231, 231, 231, 231, 231>>
ucRxAddr2 == <<194, 194, 194, 194, 194>>

W8(reg, val)    == [k |-> "w8", reg |-> reg, val |-> val, bytes |-> <<>>, al |-> 0]
R8(reg)         == [k |-> "r8", reg |-> reg, val |-> 0, bytes |-> <<>>, al |-> 0]
WM(reg, bs, al) == [k |-> "wm", reg |-> reg, val |-> 0, bytes |-> bs, al |-> al]

RegisterInitSteps ==
    << W8(RF24_CONFIG, 9), R8(RF24_CONFIG),
       W8(RF24_EN_AA, 63), R8(RF24_EN_AA),
       W8(RF24_EN_RXADDR, 3), R8(RF24_EN_RXADDR),
       W8(RF24_SETUP_AW, 3), W8(RF24_SETUP_RETR, 3), W8(RF24_RF_CH, 2),
       W8(RF24_RF_SETUP, 15), W8(RF24_STATUS, 112), W8(RF24_CD, 0),
       WM(RF24_RX_ADDR_P0, ucRxAddr1, 3), WM(RF24_RX_ADDR_P1, ucRxAddr2, 4),
       W8(RF24_RX_ADDR_P2, 195), W8(RF24_RX_ADDR_P3, 196),
       W8(RF24_RX_ADDR_P4, 197), W8(RF24_RX_ADDR_P5, 198),
       WM(RF24_TX_ADDR, ucRxAddr1, 5),
       W8(RF24_RX_PW_P0, 0), W8(RF24_RX_PW_P1, 0), W8(RF24_RX_PW_P2, 0),
       W8(RF24_RX_PW_P3, 0), W8(RF24_RX_PW_P4, 0), W8(RF24_RX_PW_P5, 0),
       W8(RF24_DYNPD, 0), W8(RF24_FEATURE, 0) >>

RECURSIVE RunSteps(_, _, _)
RunSteps(mm, steps, allocs) ==
    IF steps = <<>> THEN mm
    ELSE LET st == Head(steps)
         IN Eval(CASE st.k = "w8" -> RegisterWrite_8(mm, st.reg, st.val)
                   [] st.k = "r8" -> RegisterRead_8(mm, st.reg)
                   [] OTHER -> RegisterWrite_Multi(mm, st.reg, Buf(st.bytes), 5,
                                                   allocs[st.al]),
                 LAMBDA m1 : RunSteps(m1, Tail(steps), allocs))

\* allocs[1..5]: whether each of the five allocations succeeds
NRF24L01_RegisterInit(m, allocs) ==
    LET m1 == NRF24L01_FlushTX(m, allocs[1])
        m2 == NRF24L01_FlushRX(m1, allocs[2])
        m3 == _NRF24L01_CELow(m2)
    IN RunSteps(m3, RegisterInitSteps, allocs)

\* NRF24L01_Init: the pins, and in the example build the registers
NRF24L01_Init(m, allocs) ==
    LET m1 == _NRF24L01_CELow(m)
        m2 == _NRF24L01_CSNHigh(m1)
    IN IF variant = "arm" THEN m2 ELSE NRF24L01_RegisterInit(m2, allocs)

----------------------------------------------------------------------------
\* Inputs of the calls

\* bytes the transport returns for registers the chip model does not keep
ScriptBytes == {5, 229}
\* what a freshly allocated buffer may hold
GarbageBytes == {0, 204}
\* payloads: the first n bytes of 0x11, 0x22, 0x33, ...
PayloadBufs == {Buf([i \in 1..n |-> 17 * i]) : n \in 0..MaxLen}
\* addresses: five bytes, and the single byte that is enough for pipes 2..5
AddrBufs == {Buf(<<170, 187, 204, 221, 238>>), Buf(<<17>>)}
PipeInputs == (0..6) \cup {255}
ReadRegs == {RF24_CONFIG, RF24_FIFO_STATUS, RF24_RX_PW_P0}
WriteRegs == {RF24_RF_CH, RF24_RX_PW_P0}
WriteVals == {0, 255}
Commands == {RF24_W_TX_PAYLOAD}
\* prior values of CONFIG and RF_SETUP the field-setting calls are run on
ConfigVals == {84}
RfSetupVals == {0, 41}
\* arguments of NRF24L01_ExecuteCommand: a type that is neither, RX, TX
ExecTypes == {0, TYPE_RX, TYPE_TX}
ExecCommands == {RF24_NOP, RF24_FLUSH_TX}
ExecBufs == {NullBuf, Buf([i \in 1..MaxLen |-> 17 * i])}
\* whether the call reads a register the chip model does not keep, so that
\* the scripted byte matters
Scripted(reg) == reg \notin {RF24_CONFIG, RF24_RF_SETUP, RF24_STATUS, RF24_FIFO_STATUS}
\* outcomes of the five allocations of NRF24L01_RegisterInit: all succeed,
\* or one of them fails
AllocSeqs ==
    {[i \in 1..5 |-> TRUE]} \cup {[i \in 1..5 |-> i # j] : j \in 1..5}

\* chip states the driver may find at start-up: after power-on reset, and
\* left running by an earlier run of the microcontroller
InitChips ==
    { [config |-> 8, rf_setup |-> 15, status |-> 14, fifo |-> 17],
      [config |-> 11, rf_setup |-> 1, status |-> 46, fifo |-> 33] }

----------------------------------------------------------------------------
\* The machine a call starts on, and the state it leaves

Begin(script, g) ==
    [g_ucStatus |-> g_ucStatus, csn |-> csn, ce |-> ce,
     chip |-> chip, log |-> <<>>, cmd |-> NoCmd, idx |-> 0, miso |-> 0,
     rxq |-> <<>>, script |-> script, garbage |-> [i \in 1..MaxLen |-> g],
     ret |-> 0, out |-> <<>>, looping |-> FALSE]

Pre == [g_ucStatus |-> g_ucStatus, ce |-> ce, csn |-> csn, chip |-> chip]

NoCall ==
    [op |-> "none", a |-> 0, b |-> 0, buf |-> NullBuf, len |-> 0, alloc |-> <<>>,
     ret |-> 0, out |-> <<>>, pre |-> [g_ucStatus |-> 0, ce |-> 0, csn |-> 0,
                                       chip |-> [config |-> 0, rf_setup |-> 0,
                                                 status |-> 0, fifo |-> 0]]]

CallRec(op, a, b, buf, len, alloc, m) ==
    [op |-> op, a |-> a, b |-> b, buf |-> buf, len |-> len, alloc |-> alloc,
     ret |-> m.ret, out |-> m.out, pre |-> Pre]

Finish(m, c, nextpc) ==
    /\ g_ucStatus' = m.g_ucStatus
    /\ csn' = m.csn
    /\ ce' = m.ce
    /\ chip' = m.chip
    /\ log' = m.log
    /\ call' = c
    /\ pc' = nextpc
    /\ UNCHANGED <<variant>>

Ready == g_ucPdlibStatus = 1 /\ pc = "idle"

\* status reads (CSN brackets) in a log
Polls(l) == Cardinality({i \in 1..Len(l) : l[i] = EvCSN(0)})

Return(m, c) == Finish(m, c, "ret") /\ UNCHANGED g_ucPdlibStatus

----------------------------------------------------------------------------
\* Actions: one per call of the driver

Init ==
    /\ variant \in {"example", "arm"}
    /\ g_ucPdlibStatus = 0
    /\ g_ucStatus = 0
    /\ csn \in {0, 1}
    /\ ce \in {0, 1}
    /\ chip \in InitChips
    /\ log = <<>>
    /\ call = NoCall
    /\ pc = "idle"

DoInit ==
    /\ g_ucPdlibStatus = 0 /\ pc = "idle"
    /\ \E allocs \in AllocSeqs :
         \E m \in {NRF24L01_Init(Begin(5, 0), allocs)} :
            /\ Finish(m, CallRec("Init", 0, 0, NullBuf, 0, allocs, m), "ret")
            /\ g_ucPdlibStatus' = 1

RegisterInit ==
    /\ Ready /\ variant = "example"
    /\ \E allocs \in AllocSeqs :
         \E m \in {NRF24L01_RegisterInit(Begin(5, 0), allocs)} :
            Return(m, CallRec("RegisterInit", 0, 0, NullBuf, 0, allocs, m))

GetStatus ==
    /\ Ready
    /\ \E m \in {NRF24L01_GetStatus(Begin(5, 0))} :
          Return(m, CallRec("GetStatus", 0, 0, NullBuf, 0, <<>>, m))

RegisterRead8 ==
    /\ Ready
    /\ \E r \in ReadRegs, s \in ScriptBytes :
         /\ Scripted(r) \/ s = 5
         /\ \E m \in {RegisterRead_8(Begin(s, 0), r)} :
               Return(m, CallRec("RegisterRead_8", r, 0, NullBuf, 0, <<>>, m))

RegisterReadMulti ==
    /\ Ready /\ variant = "example"
    /\ \E r \in {RF24_RX_ADDR_P0}, n \in 0..MaxLen, s \in ScriptBytes :
         /\ n > 0 \/ s = 5
         /\ \E m \in {NRF24L01_RegisterRead_Multi(Begin(s, 0), r, n)} :
               Return(m, CallRec("RegisterRead_Multi", r, 0, NullBuf, n, <<>>, m))

RegisterWrite8 ==
    /\ Ready
    /\ \E r \in WriteRegs, v \in WriteVals :
         \E m \in {RegisterWrite_8(Begin(5, 0), r, v)} :
            Return(m, CallRec("RegisterWrite_8", r, v, NullBuf, 0, <<>>, m))

RegisterWriteMulti ==
    /\ Ready
    /\ \E r \in {RF24_TX_ADDR}, d \in PayloadBufs \cup {NullBuf}, ok \in BOOLEAN,
          n \in 0..MaxLen :
         /\ IF d.null THEN n = 1 /\ ok ELSE n <= Len(d.bytes)
         /\ \E m \in {RegisterWrite_Multi(Begin(5, 0), r, d, n, ok)} :
               Return(m, CallRec("RegisterWrite_Multi", r, 0, d, n, <<ok>>, m))

SendCommandCall ==
    /\ Ready
    /\ \E c \in Commands, d \in PayloadBufs \cup {NullBuf}, ok \in BOOLEAN,
          n \in 0..MaxLen, g \in GarbageBytes :
         /\ IF d.null THEN ok ELSE n = Len(d.bytes)
         /\ (d.null /\ n > 0) \/ g = 0
         /\ \E m \in {SendCommand(Begin(5, g), c, d, n, ok)} :
               Return(m, CallRec("SendCommand", c, g, d, n, <<ok>>, m))

FlushTX ==
    /\ Ready
    /\ \E ok \in BOOLEAN :
         \E m \in {NRF24L01_FlushTX(Begin(5, 0), ok)} :
            Return(m, CallRec("FlushTX", 0, 0, NullBuf, 0, <<ok>>, m))

FlushRX ==
    /\ Ready
    /\ \E ok \in BOOLEAN :
         \E m \in {NRF24L01_FlushRX(Begin(5, 0), ok)} :
            Return(m, CallRec("FlushRX", 0, 0, NullBuf, 0, <<ok>>, m))

SetRFChannel ==
    /\ Ready
    /\ \E ch \in {76} :
         \E m \in {NRF24L01_SetRFChannel(Begin(5, 0), ch)} :
            Return(m, CallRec("SetRFChannel", ch, 0, NullBuf, 0, <<>>, m))

SetAirDataRate ==
    /\ Ready
    /\ \E r \in {0, 1, 2} :
         \E m \in {IF variant = "arm" THEN NRF24L01_SetAirDataRate_arm(Begin(5, 0), r)
                  ELSE NRF24L01_SetAirDataRate(Begin(5, 0), r)} :
            Return(m, CallRec("SetAirDataRate", r, 0, NullBuf, 0, <<>>, m))

\* a: the gain argument (dBm in the example build, field value in the arm build)
SetPAGain ==
    /\ Ready
    /\ \E g \in IF variant = "arm" THEN 0..3 ELSE {-24, -18, -12, -6, 0, 6} :
         \E m \in {IF variant = "arm" THEN NRF24L01_SetPAGain_arm(Begin(5, 0), g)
                  ELSE NRF24L01_SetPAGain(Begin(5, 0), g)} :
            Return(m, CallRec("SetPAGain", g, 0, NullBuf, 0, <<>>, m))

SetLNAGain ==
    /\ Ready
    /\ \E g \in {0, 1} :
         \E m \in {NRF24L01_SetLNAGain(Begin(5, 0), g)} :
            Return(m, CallRec("SetLNAGain", g, 0, NullBuf, 0, <<>>, m))

PowerDown ==
    /\ Ready
    /\ \E m \in {NRF24L01_PowerDown(Begin(5, 0))} :
          Return(m, CallRec("PowerDown", 0, 0, NullBuf, 0, <<>>, m))

PowerUp ==
    /\ Ready
    /\ \E m \in {NRF24L01_PowerUp(Begin(5, 0))} :
          Return(m, CallRec("PowerUp", 0, 0, NullBuf, 0, <<>>, m))

EnableRxMode ==
    /\ Ready
    /\ \E m \in {NRF24L01_EnableRxMode(Begin(5, 0))} :
          Return(m, CallRec("EnableRxMode", 0, 0, NullBuf, 0, <<>>, m))

EnableTxMode ==
    /\ Ready
    /\ \E m \in {IF variant = "arm" THEN NRF24L01_EnableTxMode_arm(Begin(5, 0))
                ELSE NRF24L01_EnableTxMode(Begin(5, 0))} :
          Return(m, CallRec("EnableTxMode", 0, 0, NullBuf, 0, <<>>, m))

IsDataReadyRx ==
    /\ Ready
    /\ \E m \in {NRF24L01_IsDataReadyRx(Begin(5, 0))} :
          Return(m, CallRec("IsDataReadyRx", 0, 0, NullBuf, 0, <<>>, m))

IsTxFifoFull ==
    /\ Ready /\ variant = "example"
    /\ \E m \in {NRF24L01_IsTxFifoFull(Begin(5, 0))} :
          Return(m, CallRec("IsTxFifoFull", 0, 0, NullBuf, 0, <<>>, m))

GetRxDataAmount ==
    /\ Ready
    /\ \E p \in PipeInputs, s \in ScriptBytes :
         /\ p < 6 \/ s = 5
         /\ \E m \in {NRF24L01_GetRxDataAmount(Begin(s, 0), p)} :
               Return(m, CallRec("GetRxDataAmount", p, 0, NullBuf, 0, <<>>, m))

SetTXAddress ==
    /\ Ready
    /\ \E ad \in AddrBufs \cup {NullBuf}, ok \in BOOLEAN :
         /\ ad.null => ok
         /\ ad.null \/ Len(ad.bytes) = 5
         /\ \E m \in {NRF24L01_SetTXAddress(Begin(5, 0), ad, ok)} :
               Return(m, CallRec("SetTXAddress", 0, 0, ad, 5, <<ok>>, m))

SetRxAddress ==
    /\ Ready
    /\ \E p \in PipeInputs, ad \in AddrBufs \cup {NullBuf}, ok \in BOOLEAN :
         /\ (ad.null \/ p > 1) => ok
         /\ (p < 2) => (ad.null \/ Len(ad.bytes) = 5)
         /\ \E m \in {NRF24L01_SetRxAddress(Begin(5, 0), p, ad, ok)} :
               Return(m, CallRec("SetRxAddress", p, 0, ad, 5, <<ok>>, m))

SetTxPayload ==
    /\ Ready
    /\ \E d \in PayloadBufs \cup {NullBuf}, ok \in BOOLEAN, n \in 0..MaxLen,
          g \in GarbageBytes :
         /\ IF d.null THEN ok ELSE n = Len(d.bytes)
         /\ (d.null /\ n > 0) \/ g = 0
         /\ \E m \in {IF variant = "arm"
                     THEN NRF24L01_SetTxPayload_arm(Begin(5, g), d, n, ok)
                     ELSE NRF24L01_SetTxPayload(Begin(5, g), d, n, ok)} :
               Return(m, CallRec("SetTxPayload", 0, g, d, n, <<ok>>, m))

\* a: ucType, b: ucCommand.  pucStatus always points to a byte of the
\* caller's (the function writes through it without a check).
ExecuteCommand ==
    /\ Ready
    /\ \E t \in ExecTypes, c \in ExecCommands, d \in ExecBufs, n \in 0..MaxLen,
          ok \in BOOLEAN :
         /\ d.null \/ n <= Len(d.bytes)
         /\ ok \/ (t = TYPE_TX /\ ~(d.null /\ n > 0) /\ ~(n = 0 /\ c # RF24_NOP))
         /\ \E m \in {NRF24L01_ExecuteCommand(Begin(5, 0), t, c, d, n, ok)} :
               Return(m, CallRec("ExecuteCommand", t, c, d, n, <<ok>>, m))

\* NRF24L01_WaitForTxComplete up to its return or, in blocking mode with no
\* completion bit in the first status, up to the body of its while loop
WaitForTxComplete ==
    /\ Ready /\ variant = "example"
    /\ \E ucWaitMode \in {0, 1} :
         \E m \in {NRF24L01_WaitForTxComplete(Begin(5, 0), ucWaitMode)} :
            /\ Finish(m, CallRec("WaitForTxComplete", ucWaitMode, 0, NullBuf, 0, <<>>, m),
                      IF m.looping THEN "wait" ELSE "ret")
            /\ UNCHANGED g_ucPdlibStatus

\* one pass of the while loop: another status read, then the loop condition.
\* Polls that find no completion bit are followed up to MaxPolls of them.
WaitPoll ==
    /\ pc = "wait"
    /\ Polls(log) <= MaxPolls \/ ~WaitLoopCond(chip.status)
    /\ \E m \in {WaitLoopPass([Begin(5, 0) EXCEPT !.log = log])} :
          /\ Finish(m, [call EXCEPT !.ret = m.ret], IF m.looping THEN "wait" ELSE "ret")
          /\ UNCHANGED g_ucPdlibStatus

\* The caller goes on after a call has returned: the record of the call is
\* dropped, the next call may start
CallerResumes ==
    /\ pc = "ret"
    /\ pc' = "idle"
    /\ log' = <<>>
    /\ call' = NoCall
    /\ UNCHANGED <<variant, g_ucPdlibStatus, g_ucStatus, csn, ce, chip>>

----------------------------------------------------------------------------
\* The chip's own events, between calls and between the polls of a wait

ChipIdle == g_ucPdlibStatus = 1 /\ pc \in {"idle", "wait"}

ChipTxDs ==
    /\ ChipIdle
    /\ ~HasBit(chip.status, RF24_TX_DS)
    /\ chip' = [chip EXCEPT !.status = BitOr(chip.status, RF24_TX_DS)]
    /\ UNCHANGED <<variant, g_ucPdlibStatus, g_ucStatus, csn, ce, log, call, pc>>

ChipMaxRt ==
    /\ ChipIdle
    /\ ~HasBit(chip.status, RF24_MAX_RT)
    /\ chip' = [chip EXCEPT !.status = BitOr(chip.status, RF24_MAX_RT)]
    /\ UNCHANGED <<variant, g_ucPdlibStatus, g_ucStatus, csn, ce, log, call, pc>>

ChipTxFifoFull ==
    /\ ChipIdle
    /\ ~HasBit(chip.fifo, RF24_TX_FULL)
    /\ chip' = [chip EXCEPT !.fifo = BitOr(BitClear(chip.fifo, RF24_TX_EMPTY),
                                           RF24_TX_FULL)]
    /\ UNCHANGED <<variant, g_ucPdlibStatus, g_ucStatus, csn, ce, log, call, pc>>

----------------------------------------------------------------------------
Next ==
    \/ DoInit
    \/ RegisterInit
    \/ GetStatus
    \/ RegisterRead8
    \/ RegisterReadMulti
    \/ RegisterWrite8
    \/ RegisterWriteMulti
    \/ SendCommandCall
    \/ FlushTX
    \/ FlushRX
    \/ SetRFChannel
    \/ SetAirDataRate
    \/ SetPAGain
    \/ SetLNAGain
    \/ PowerDown
    \/ PowerUp
    \/ EnableRxMode
    \/ EnableTxMode
    \/ IsDataReadyRx
    \/ IsTxFifoFull
    \/ GetRxDataAmount
    \/ SetTXAddress
    \/ SetRxAddress
    \/ SetTxPayload
    \/ ExecuteCommand
    \/ WaitForTxComplete
    \/ WaitPoll
    \/ CallerResumes
    \/ ChipTxDs
    \/ ChipMaxRt
    \/ ChipTxFifoFull

\* A register write that leaves CONFIG or RF_SETUP at a chosen value, so
\* that the field-setting calls are run on every prior value of interest
WriteField ==
    /\ Ready
    /\ \E r \in {RF24_CONFIG, RF24_RF_SETUP} :
         \E v \in IF r = RF24_CONFIG THEN ConfigVals ELSE RfSetupVals :
            \E m \in {RegisterWrite_8(Begin(5, 0), r, v)} :
               Return(m, CallRec("RegisterWrite_8", r, v, NullBuf, 0, <<>>, m))

\* The calls that set fields of CONFIG and RF_SETUP, on every prior value
NextFields ==
    \/ DoInit
    \/ WriteField
    \/ PowerDown
    \/ PowerUp
    \/ EnableRxMode
    \/ EnableTxMode
    \/ SetAirDataRate
    \/ SetPAGain
    \/ CallerResumes
    \/ ChipTxDs
    \/ ChipMaxRt

SpecFields == Init /\ [][NextFields]_vars

Spec == Init /\ [][Next]_vars

----------------------------------------------------------------------------
\* What the properties below read off a finished call: pc = "ret" with the
\* call's name and arguments in call, the state before it in call.pre, and
\* its pin edges and byte transfers in log.

Returned(op) == pc = "ret" /\ call.op = op

\* the log is one transaction: CSN low, the bytes txs in order, CSN high
IsBracket(l, txs) ==
    /\ Len(l) = Len(txs) + 2
    /\ l[1] = EvCSN(0)
    /\ l[Len(l)] = EvCSN(1)
    /\ \A i \in 1..Len(txs) : l[i + 1].k = "xfer" /\ l[i + 1].tx = txs[i]

\* the positions of the falling CSN edges in a log
CSNLows(l) == {i \in 1..Len(l) : l[i] = EvCSN(0)}

\* the byte the chip returned with the first byte after the last falling edge
LastOpcodeRx(l) ==
    LET i == CHOOSE j \in CSNLows(l) : \A k \in CSNLows(l) : k <= j
    IN l[i + 1].rx

\* neither TX_DS (0x20) nor MAX_RT (0x10) in a status byte
NoCompletion(st) == BitAnd(st, 48) = 0

\* the log is n status reads: n brackets of the two bytes NOP, NOP
IsStatusReads(l, n) ==
    /\ Len(l) = 4 * n
    /\ \A j \in 0..(n - 1) :
          /\ l[4 * j + 1] = EvCSN(0)
          /\ l[4 * j + 2].k = "xfer" /\ l[4 * j + 2].tx = RF24_NOP
          /\ l[4 * j + 3].k = "xfer" /\ l[4 * j + 3].tx = RF24_NOP
          /\ l[4 * j + 4] = EvCSN(1)

\* the transfers of a log whose first byte is the W_TX_PAYLOAD command
PayloadWrites(l) ==
    {i \in CSNLows(l) : i < Len(l) /\ l[i + 1].tx = RF24_W_TX_PAYLOAD}

----------------------------------------------------------------------------
\* C1 as stated: every register write (RegisterWrite_8 with any register and
\* value, RegisterWrite_Multi with a non-null buffer and length N) is one
\* CSN low / CSN high bracket around exactly 1 + N bytes, the first being
\* W_REGISTER | register, the rest the payload in order.
C1_Stated_RegisterWriteBracket ==
    /\ Returned("RegisterWrite_8") =>
          IsBracket(log, <<U8(BitOr(RF24_W_REGISTER, call.a)), call.b>>)
    /\ (Returned("RegisterWrite_Multi") /\ ~call.buf.null) =>
          IsBracket(log, <<U8(BitOr(RF24_W_REGISTER, call.a))>>
                           \o Take(call.buf.bytes, call.len))

\* C1 amended: the same, for RegisterWrite_Multi only when the allocation of
\* its transient buffer succeeds; when it fails the call transfers nothing
\* and leaves CSN and the stored status alone.
C1_RegisterWriteBracket ==
    /\ Returned("RegisterWrite_8") =>
          IsBracket(log, <<U8(BitOr(RF24_W_REGISTER, call.a)), call.b>>)
    /\ (Returned("RegisterWrite_Multi") /\ ~call.buf.null /\ call.alloc[1]) =>
          IsBracket(log, <<U8(BitOr(RF24_W_REGISTER, call.a))>>
                           \o Take(call.buf.bytes, call.len))
    /\ (Returned("RegisterWrite_Multi") /\ ~call.buf.null /\ ~call.alloc[1]) =>
          /\ log = <<>>
          /\ csn = call.pre.csn
          /\ g_ucStatus = call.pre.g_ucStatus

\* a multi-byte write of two payload bytes has returned, its allocation
\* having succeeded
C1_Witness ==
    /\ Returned("RegisterWrite_Multi")
    /\ ~call.buf.null /\ call.alloc[1]
    /\ call.len = 2
    /\ Len(log) = 5

\* C2: RegisterRead_8(register) is one bracket of exactly two bytes,
\* R_REGISTER | register and NOP, and returns the byte clocked in with the
\* second (not the status clocked in with the first).
C2_RegisterRead8 ==
    Returned("RegisterRead_8") =>
        /\ IsBracket(log, <<U8(BitOr(RF24_R_REGISTER, call.a)), RF24_NOP>>)
        /\ call.ret = log[3].rx

\* a read has returned a value that differs from the status byte that came
\* with its command byte
C2_Witness ==
    /\ Returned("RegisterRead_8")
    /\ Len(log) = 4
    /\ log[3].rx # log[2].rx
    /\ call.ret = log[3].rx

\* C3 as stated: after any call, the stored status is the byte the chip
\* returned with the first (command) byte of the most recent transaction, for
\* every kind of transaction, SendCommand included; a call without a
\* transaction leaves it as it was.
C3_Stated_StatusFromLastTransaction ==
    (pc \in {"ret", "wait"}) =>
        IF CSNLows(log) = {} THEN g_ucStatus = call.pre.g_ucStatus
        ELSE g_ucStatus = LastOpcodeRx(log)

\* C4: a blocking NRF24L01_WaitForTxComplete whose status reads show no
\* completion bit k times and then one, makes exactly k + 1 status reads: every
\* read but the last shows neither TX_DS nor MAX_RT, the function stays in
\* its loop exactly as long as the last read shows neither, and what it
\* returns is computed from the last status read.
C4_BlockingWaitPolls ==
    (pc \in {"wait", "ret"} /\ call.op = "WaitForTxComplete" /\ call.a = 1) =>
        LET n == Cardinality(CSNLows(log))
        IN /\ n >= 1
           /\ IsStatusReads(log, n)
           /\ \A j \in 0..(n - 2) : NoCompletion(log[4 * j + 2].rx)
           /\ (pc = "wait") <=> NoCompletion(log[4 * n - 2].rx)
           /\ (pc = "ret") => call.ret = BitAnd(log[4 * n - 2].rx, 48) * 16

\* a blocking wait has returned after two status reads without a completion
\* bit and a third with one
C4_Witness ==
    /\ Returned("WaitForTxComplete") /\ call.a = 1
    /\ Cardinality(CSNLows(log)) = 3
    /\ NoCompletion(log[2].rx) /\ NoCompletion(log[6].rx)
    /\ ~NoCompletion(log[10].rx)

\* C5: a non-blocking NRF24L01_WaitForTxComplete called while the chip's
\* status has neither TX_DS nor MAX_RT makes exactly one status read, does
\* not enter the loop, and returns 0.
C5_NonBlockingWait ==
    (pc # "idle" /\ call.op = "WaitForTxComplete" /\ call.a = 0
       /\ NoCompletion(call.pre.chip.status)) =>
        /\ pc = "ret"
        /\ IsStatusReads(log, 1)
        /\ call.ret = 0

\* a non-blocking wait has returned, the chip showing no completion bit
C5_Witness ==
    /\ Returned("WaitForTxComplete") /\ call.a = 0
    /\ NoCompletion(call.pre.chip.status)
    /\ NoCompletion(log[2].rx)
    /\ call.ret = 0

\* C6 as stated: NRF24L01_WaitForTxComplete returns 0 when the last status
\* read has neither TX_DS nor MAX_RT, 1 when it has MAX_RT and not TX_DS, 2
\* when it has TX_DS and not MAX_RT.
C6_Stated_WaitResultCodes ==
    Returned("WaitForTxComplete") =>
        LET st == LastOpcodeRx(log)
        IN /\ NoCompletion(st) => call.ret = 0
           /\ (HasBit(st, RF24_MAX_RT) /\ ~HasBit(st, RF24_TX_DS)) => call.ret = 1
           /\ (HasBit(st, RF24_TX_DS) /\ ~HasBit(st, RF24_MAX_RT)) => call.ret = 2

\* C7 as stated: in the build that checks the FIFO, NRF24L01_SetTxPayload
\* called while FIFO_STATUS has TX_FULL returns -1 and sends no W_TX_PAYLOAD;
\* called while TX_FULL is clear it sends exactly one W_TX_PAYLOAD carrying
\* the payload and returns 0.  (Read for the calls whose payload is not
\* null and whose frame allocation succeeds.)
C7_Stated_SetTxPayloadFifoCheck ==
    (Returned("SetTxPayload") /\ variant = "example" /\ ~call.buf.null
       /\ call.alloc[1]) =>
        IF HasBit(call.pre.chip.fifo, RF24_TX_FULL)
        THEN call.ret = -1 /\ PayloadWrites(log) = {}
        ELSE /\ call.ret = 0
             /\ Cardinality(PayloadWrites(log)) = 1
             /\ \E i \in PayloadWrites(log) :
                   \A j \in 1..call.len :
                       i + 1 + j <= Len(log) /\ log[i + 1 + j].tx = call.buf.bytes[j]

\* C8 as stated: NRF24L01_IsTxFifoFull reads FIFO_STATUS once and returns 1
\* when TX_FULL is set in the value read, 0 when it is clear.
C8_Stated_IsTxFifoFull ==
    Returned("IsTxFifoFull") =>
        /\ IsBracket(log, <<U8(BitOr(RF24_R_REGISTER, RF24_FIFO_STATUS)), RF24_NOP>>)
        /\ call.ret = IF HasBit(log[3].rx, RF24_TX_FULL) THEN 1 ELSE 0

\* C9: NRF24L01_GetRxDataAmount(pipe) with pipe >= 6 returns 0 without any
\* transaction (no CSN edge, no byte, stored status unchanged); with pipe in
\* 0..5 it makes exactly one single-register read of RX_PW_P0 + pipe and
\* returns the value read masked with 0x3F.
C9_GetRxDataAmount ==
    Returned("GetRxDataAmount") =>
        IF call.a >= 6
        THEN /\ call.ret = 0
             /\ log = <<>>
             /\ csn = call.pre.csn
             /\ g_ucStatus = call.pre.g_ucStatus
        ELSE /\ IsBracket(log, <<U8(BitOr(RF24_R_REGISTER, RF24_RX_PW_P0 + call.a)),
                                 RF24_NOP>>)
             /\ call.ret = BitAnd(log[3].rx, 63)

\* pipe 255 has been asked for while the stored status differed from the
\* chip's: nothing was transferred, 0 came back
C9_Witness ==
    /\ Returned("GetRxDataAmount")
    /\ call.a = 255
    /\ call.pre.g_ucStatus # call.pre.chip.status
    /\ call.ret = 0
    /\ log = <<>>

\* C10 as stated: NRF24L01_SetRxAddress(pipe, address) with a non-null
\* address makes, for pipe 0 or 1, exactly one multi-byte write of the five
\* address bytes to RX_ADDR_P0 + pipe; for pipe 2..5 exactly one single-byte
\* write of address[0] to RX_ADDR_P0 + pipe; for pipe >= 6, or a null
\* address, no transaction.
C10_Stated_SetRxAddress ==
    Returned("SetRxAddress") =>
        IF call.buf.null \/ call.a >= 6 THEN log = <<>>
        ELSE IF call.a < 2
             THEN IsBracket(log, <<U8(BitOr(RF24_W_REGISTER, RF24_RX_ADDR_P0 + call.a))>>
                                   \o Take(call.buf.bytes, 5))
        ELSE IsBracket(log, <<U8(BitOr(RF24_W_REGISTER, RF24_RX_ADDR_P0 + call.a)),
                              call.buf.bytes[1]>>)

\* C10 amended: the same, the multi-byte write of pipes 0 and 1 being made
\* only when the allocation of its transient buffer succeeds; when it fails
\* nothing is transferred.
C10_SetRxAddress ==
    Returned("SetRxAddress") =>
        IF call.buf.null \/ call.a >= 6 THEN log = <<>>
        ELSE IF call.a < 2
             THEN IF call.alloc[1]
                  THEN IsBracket(log,
                           <<U8(BitOr(RF24_W_REGISTER, RF24_RX_ADDR_P0 + call.a))>>
                             \o Take(call.buf.bytes, 5))
                  ELSE log = <<>>
        ELSE IsBracket(log, <<U8(BitOr(RF24_W_REGISTER, RF24_RX_ADDR_P0 + call.a)),
                              call.buf.bytes[1]>>)

\* the address of pipe 3 has been set from a one-byte buffer
C10_Witness ==
    /\ Returned("SetRxAddress")
    /\ call.a = 3
    /\ ~call.buf.null /\ Len(call.buf.bytes) = 1
    /\ Len(log) = 4
    /\ log[3].tx = call.buf.bytes[1]

----------------------------------------------------------------------------
\* What the properties of the field-setting calls read

\* v with the bits of mask taken out: two values that agree outside mask
\* have the same Outside
Outside(v, mask) == BitClear(v, mask)

\* the positions in a log where a register write starts (a falling CSN edge
\* followed by a W_REGISTER command byte), and the register each addresses
RegWrites(l) ==
    {i \in CSNLows(l) : i < Len(l) /\ l[i + 1].tx >= RF24_W_REGISTER
                          /\ l[i + 1].tx < 2 * RF24_W_REGISTER}

\* the positions of the CE edges in a log
CEEdges(l) == {i \in 1..Len(l) : l[i].k = "ce"}

\* the log ends with the write of value v to CONFIG, followed by nothing
\* (level = -1) or by the one CE edge of the call, to level
EndsWithConfigWrite(l, v, level) ==
    LET n == IF level = -1 THEN Len(l) ELSE Len(l) - 1
    IN /\ n >= 4
       /\ l[n - 3] = EvCSN(0)
       /\ l[n - 2].k = "xfer" /\ l[n - 2].tx = U8(BitOr(RF24_W_REGISTER, RF24_CONFIG))
       /\ l[n - 1].k = "xfer" /\ l[n - 1].tx = v
       /\ l[n] = EvCSN(1)
       /\ IF level = -1 THEN CEEdges(l) = {}
          ELSE CEEdges(l) = {Len(l)} /\ l[Len(l)] = EvCE(level)

\* C11: after PowerUp the chip's PWR_UP bit is set and after PowerDown it is
\* clear, neither of EnableRxMode / EnableTxMode changing it; after
\* EnableRxMode PRIM_RX is set and after EnableTxMode it is clear, neither of
\* PowerUp / PowerDown changing it (so each bit follows the most recent call
\* of its pair); CE is low after PowerDown and high after EnableRxMode and
\* EnableTxMode, the CONFIG write of the call coming before its CE edge.
C11_PowerAndModeBits ==
    /\ Returned("PowerUp") =>
          /\ HasBit(chip.config, RF24_PWR_UP)
          /\ HasBit(chip.config, RF24_PRIM_RX) = HasBit(call.pre.chip.config, RF24_PRIM_RX)
          /\ EndsWithConfigWrite(log, chip.config, -1)
          /\ ce = call.pre.ce
    /\ Returned("PowerDown") =>
          /\ ~HasBit(chip.config, RF24_PWR_UP)
          /\ HasBit(chip.config, RF24_PRIM_RX) = HasBit(call.pre.chip.config, RF24_PRIM_RX)
          /\ EndsWithConfigWrite(log, chip.config, 0)
          /\ ce = 0
    /\ Returned("EnableRxMode") =>
          /\ HasBit(chip.config, RF24_PRIM_RX)
          /\ HasBit(chip.config, RF24_PWR_UP) = HasBit(call.pre.chip.config, RF24_PWR_UP)
          /\ EndsWithConfigWrite(log, chip.config, 1)
          /\ ce = 1
    /\ Returned("EnableTxMode") =>
          /\ ~HasBit(chip.config, RF24_PRIM_RX)
          /\ HasBit(chip.config, RF24_PWR_UP) = HasBit(call.pre.chip.config, RF24_PWR_UP)
          /\ EndsWithConfigWrite(log, chip.config, 1)
          /\ ce = 1

\* PowerDown has returned on a chip that was powered up with CE high: PWR_UP
\* went from set to clear, CE from high to low, PRIM_RX stayed set
C11_Witness ==
    /\ Returned("PowerDown")
    /\ HasBit(call.pre.chip.config, RF24_PWR_UP) /\ ~HasBit(chip.config, RF24_PWR_UP)
    /\ HasBit(call.pre.chip.config, RF24_PRIM_RX) /\ HasBit(chip.config, RF24_PRIM_RX)
    /\ call.pre.ce = 1 /\ ce = 0

\* C12 as stated: SetAirDataRate leaves bit 3 of RF_SETUP 0 after 1 Mbps is
\* selected and 1 after 2 Mbps is selected, and every other bit of RF_SETUP
\* as it was (rate argument 1 or 2 in the example build, 0 or 1 in the arm
\* build).
C12_Stated_SetAirDataRate ==
    (Returned("SetAirDataRate")
       /\ call.a \in (IF variant = "arm" THEN {0, 1} ELSE {1, 2})) =>
        LET fast == call.a = (IF variant = "arm" THEN 1 ELSE 2)
        IN /\ HasBit(chip.rf_setup, 8) = fast
           /\ Outside(chip.rf_setup, 8) = Outside(call.pre.chip.rf_setup, 8)

\* C13 as stated: in the clamping build SetPAGain(g) clamps g to -18..0 and
\* leaves bits 2:1 of RF_SETUP at 11 for 0 dBm, 10 for -6 dBm, 01 for -12 dBm
\* and 00 for -18 dBm, every other bit of RF_SETUP as it was.
C13_Stated_SetPAGain ==
    (Returned("SetPAGain") /\ variant = "example") =>
        LET g == IF call.a < -18 THEN -18 ELSE IF call.a > 0 THEN 0 ELSE call.a
            field == 3 - ((0 - g) \div 6)
        IN /\ BitAnd(chip.rf_setup, 6) = 2 * field
           /\ Outside(chip.rf_setup, 6) = Outside(call.pre.chip.rf_setup, 6)

\* C14 as stated: on every write path (RegisterWrite_Multi, SendCommand,
\* SetTxPayload, SetTXAddress) a call with a null payload pointer and a
\* nonzero length is skipped: CSN is never driven low, no byte is
\* transferred, the stored status is unchanged.
C14_Stated_NullPayloadSkipped ==
    (pc = "ret"
       /\ call.op \in {"RegisterWrite_Multi", "SendCommand", "SetTxPayload",
                       "SetTXAddress"}
       /\ call.buf.null /\ call.len > 0) =>
        /\ log = <<>>
        /\ csn = call.pre.csn
        /\ g_ucStatus = call.pre.g_ucStatus

\* C15: when the allocation of the transient buffer fails in
\* RegisterWrite_Multi or SendCommand (called directly or through FlushTX,
\* FlushRX, SetTXAddress), the transaction is skipped entirely: CSN stays
\* high, no byte is transferred (none is retried), and the stored status, the
\* CE line and the chip are left as they were.
C15_AllocFailureSkips ==
    (pc = "ret"
       /\ call.op \in {"RegisterWrite_Multi", "SendCommand", "FlushTX", "FlushRX",
                       "SetTXAddress"}
       /\ (call.op \in {"RegisterWrite_Multi", "SetTXAddress"} => ~call.buf.null)
       /\ ~call.alloc[1]) =>
        /\ log = <<>>
        /\ csn = 1 /\ call.pre.csn = 1
        /\ ce = call.pre.ce
        /\ g_ucStatus = call.pre.g_ucStatus
        /\ chip = call.pre.chip

\* SendCommand has returned from a failed allocation, with a payload of two
\* bytes, while the stored status differed from the chip's
C15_Witness ==
    /\ Returned("SendCommand")
    /\ ~call.alloc[1]
    /\ call.len = 2
    /\ call.pre.g_ucStatus # call.pre.chip.status
    /\ log = <<>>

\* C16 as stated: in the build that clears flags, EnableTxMode first writes
\* STATUS, then CONFIG with PRIM_RX cleared, then drives CE high, and when it
\* returns both TX_DS and MAX_RT read as clear on the chip, whatever the
\* status was before.
C16_Stated_EnableTxModeClearsFlags ==
    (Returned("EnableTxMode") /\ variant = "example") =>
        /\ \E i \in RegWrites(log) :
              /\ log[i + 1].tx = U8(BitOr(RF24_W_REGISTER, RF24_STATUS))
              /\ i < Len(log) - 4
        /\ EndsWithConfigWrite(log, chip.config, 1)
        /\ ~HasBit(chip.config, RF24_PRIM_RX)
        /\ ~HasBit(chip.status, RF24_TX_DS)
        /\ ~HasBit(chip.status, RF24_MAX_RT)

\* C20: each of PowerUp, PowerDown, EnableRxMode and EnableTxMode leaves
\* every bit of CONFIG other than its own (PWR_UP for the power calls,
\* PRIM_RX for the mode calls) as it was on the chip before the call, and
\* writes no register other than CONFIG (the flag-clearing EnableTxMode
\* writes STATUS too).
C20_ConfigFrame ==
    (pc = "ret" /\ call.op \in {"PowerUp", "PowerDown", "EnableRxMode", "EnableTxMode"}) =>
        LET own == IF call.op \in {"PowerUp", "PowerDown"} THEN RF24_PWR_UP
                   ELSE RF24_PRIM_RX
            allowed == {U8(BitOr(RF24_W_REGISTER, RF24_CONFIG))}
                         \cup (IF call.op = "EnableTxMode" /\ variant = "example"
                               THEN {U8(BitOr(RF24_W_REGISTER, RF24_STATUS))}
                               ELSE {})
        IN /\ Outside(chip.config, own) = Outside(call.pre.chip.config, own)
           /\ chip.rf_setup = call.pre.chip.rf_setup
           /\ chip.fifo = call.pre.chip.fifo
           /\ \A i \in RegWrites(log) : log[i + 1].tx \in allowed
           /\ Cardinality({i \in RegWrites(log) :
                             log[i + 1].tx = U8(BitOr(RF24_W_REGISTER, RF24_CONFIG))}) = 1

\* PowerUp has returned on a chip whose CONFIG was 0x54: it is 0x56 now
C20_Witness ==
    /\ Returned("PowerUp")
    /\ call.pre.chip.config = 84
    /\ chip.config = 86

\* C17: NRF24L01_ExecuteCommand returns -1 without transferring a byte, and
\* with the stored status unchanged, when the length is above 0 and the data
\* pointer is null, and when the type is TX, the length 0 and the command
\* not NOP.
C17_ExecuteCommandRejects ==
    (Returned("ExecuteCommand")
       /\ \/ call.len > 0 /\ call.buf.null
          \/ call.a = TYPE_TX /\ call.len = 0 /\ call.b # RF24_NOP) =>
        /\ call.ret = -1
        /\ log = <<>>
        /\ g_ucStatus = call.pre.g_ucStatus
        /\ csn = call.pre.csn

\* a TX command other than NOP has been rejected for its zero length, the
\* data pointer not being null
C17_Witness ==
    /\ Returned("ExecuteCommand")
    /\ call.a = TYPE_TX /\ call.len = 0 /\ call.b = RF24_FLUSH_TX
    /\ ~call.buf.null
    /\ call.ret = -1
    /\ log = <<>>

\* the level of CSN just before the i-th event of a log that starts with CSN
\* at level start
CSNBefore(l, i, start) ==
    LET cs == {j \in 1..(i - 1) : l[j].k = "csn"}
    IN  IF cs = {} THEN start
        ELSE l[CHOOSE j \in cs : \A h \in cs : h <= j].tx

\* C19: CSN is high after Init and after every operation returns, CSN is
\* never driven low while it is already low, and every byte put on the bus
\* is transferred while CSN is low.
C19_Stated_CSNDiscipline ==
    /\ pc = "ret" => csn = 1
    /\ \A i \in 1..Len(log) :
         /\ log[i] = EvCSN(0) => CSNBefore(log, i, call.pre.csn) = 1
         /\ log[i].k = "xfer" => CSNBefore(log, i, call.pre.csn) = 0

\* The calls of a caller that sends and waits, with the chip's events.  The
\* while loop of a blocking wait has nothing in it that could stop it from
\* running: its passes are taken under weak fairness.
NextWait ==
    \/ DoInit
    \/ RegisterInit
    \/ GetStatus
    \/ WaitForTxComplete
    \/ WaitPoll
    \/ CallerResumes
    \/ ChipTxDs
    \/ ChipMaxRt

SpecWait == Init /\ [][NextWait]_vars /\ WF_vars(WaitPoll)

\* C18: a blocking NRF24L01_WaitForTxComplete returns if and only if a
\* status poll observes TX_DS or MAX_RT: once the chip has set one of the
\* bits the call in its loop eventually returns; while the chip has set
\* neither, the call does not return (at its entry it goes into the loop,
\* in the loop every step leaves it there); and the read on which it
\* returns from the loop (the first byte of the last bracket of the log)
\* shows one of the bits.
C18_BlockingWaitReturns ==
    /\ (pc = "wait" /\ ~NoCompletion(chip.status)) ~> (pc = "ret")
    /\ [][(pc = "idle" /\ call'.op = "WaitForTxComplete" /\ call'.a = 1) =>
             (pc' = "ret" <=> ~NoCompletion(chip.status))]_vars
    /\ [][(pc = "wait" /\ NoCompletion(chip.status)) => pc' = "wait"]_vars
    /\ [][(pc = "wait" /\ pc' = "ret") =>
             /\ ~NoCompletion(log'[Len(log') - 2].rx)
             /\ ~NoCompletion(g_ucStatus')]_vars

\* a blocking wait has returned from its loop on a status read that showed
\* MAX_RT and not TX_DS
C18_Witness ==
    /\ Returned("WaitForTxComplete") /\ call.a = 1
    /\ Cardinality(CSNLows(log)) >= 2
    /\ HasBit(g_ucStatus, RF24_MAX_RT) /\ ~HasBit(g_ucStatus, RF24_TX_DS)
    /\ NoCompletion(call.pre.chip.status)

\* C21: in every state reached after Init by device-control calls, between
\* calls and when a call returns, CE is high only if the PWR_UP bit of the
\* chip's CONFIG register is set.
C21_Stated_CEHighOnlyPoweredUp ==
    (g_ucPdlibStatus = 1 /\ ce = 1) => HasBit(chip.config, RF24_PWR_UP)

====
